---- MODULE Spec2Model ----
(***************************************************************************)
(* A model of the yeelight protocol engine of src/yeelight.go:             *)
(*   - yeelight.send   : one command/response exchange per TCP connection, *)
(*                       serialised by y.mu                                *)
(*   - yeelight.Listen : the background goroutine that decodes             *)
(*                       notifications and hands them over a channel       *)
(*   - Discover        : the SSDP probe, parseAddr and New                 *)
(* Every component has its own specification (Spec for send, ListenSpec,   *)
(* DiscoverSpec), the variables of the other components stay idle.         *)
(***************************************************************************)
EXTENDS Integers, Sequences, FiniteSets, TLC

VARIABLES
    \* ---- yeelight.send ----
    mu,        \* y.mu: the caller holding the mutex, NoCaller when unlocked
    pc,        \* pc[c]: where caller c is inside send
    args,      \* args[c]: the (method, params) caller c passed to send
    cmd,       \* cmd[c]: the command struct built at lines 176-180
    conn,      \* conn[c]: state of the connection caller c dialled
    peer,      \* peer[c]: how the peer treats caller c's connection
    wire,      \* wire[c]: what has been written on caller c's connection
    inbox,     \* inbox[c]: what the peer has put on the connection for c
    rs,        \* rs[c]: the Response decoded at line 202
    ret,       \* ret[c]: the (*Response, error) pair of send's return statement
    \* ---- yeelight.Listen ----
    lpc,       \* position of Listen / of its goroutine
    lconn,     \* state of the listener connection (our side)
    stream,    \* bytes the peer has written that no Read has returned yet
    peerClosed,\* the peer closed or broke the listener connection
    dbuf,      \* buffer of the json.Decoder created in this iteration
    notif,     \* the decoded notification being handed over
    chClosed,  \* notificationsCh is closed
    cancelled, \* ctx.Done() is closed
    consumer,  \* TRUE while the consumer keeps receiving from the channel
    sent,      \* notifications the peer has written, in order
    received,  \* notifications the consumer has received, in order
    nwritten,  \* number of notification frames the peer has written
    njunk,     \* number of malformed frames the peer has written
    \* ---- Discover ----
    dpc,       \* position inside Discover
    sock,      \* state of the UDP socket
    dgrams,    \* datagrams that have reached the socket, in arrival order
    replied,   \* responders that have already answered
    buf,       \* buf[0:size] as filled by ReadFromUDP
    dret       \* the (Yeelight, error) pair Discover returns

sendVars == <<mu, pc, args, cmd, conn, peer, wire, inbox, rs, ret>>
listenVars == <<lpc, lconn, stream, peerClosed, dbuf, notif, chClosed,
                cancelled, consumer, sent, received, nwritten, njunk>>
discoverVars == <<dpc, sock, dgrams, replied, buf, dret>>
vars == <<sendVars, listenVars, discoverVars>>

(***************************************************************************)
(* Bounds and program constants                                            *)
(***************************************************************************)
NumCallers == 2          \* concurrent callers of send on one transport
MaxNotifs == 3           \* notification frames the peer writes
MaxJunk == 1             \* malformed frames the peer writes
MaxHeaders == 2          \* header lines in a discovery reply

IdLimit == 100           \* y.rnd.Intn(100)
DefaultPort == 55443     \* New: address += ":55443"
BufSize == 1024          \* Discover: buf := make([]byte, 1024)

Callers == 1..NumCallers
NoCaller == 0

\* the request ids the model draws from the range of Intn(IdLimit)
Ids == {0, IdLimit - 1}

\* an identifier of the same range other than id
OtherId(id) == (id + IdLimit - 1) % IdLimit

\* the address the transport was constructed with
Address == "192.168.1.50:55443"

crlf == "\r\n"

(***************************************************************************)
(* Commands                                                                *)
(***************************************************************************)
\* method.go: the vocabulary (a sample of it)
SetPower == "set_power"
Toggle == "toggle"
GetProp == "get_prop"

\* a parameter value json.Marshal rejects (a channel, a func, NaN)
Unencodable == "<chan>"

\* a parameter value whose JSON text is longer than the socket buffers of
\* both ends together
Huge == "<16 MiB string>"

\* the (method, params) pairs callers pass; Toggle passes no params
CallArgs ==
    { [method |-> GetProp, params |-> <<"power">>],
      [method |-> Toggle, params |-> <<>>],
      [method |-> SetPower, params |-> <<Unencodable>>],
      [method |-> SetPower, params |-> <<Huge>>] }

NoCmd == [id |-> -1, method |-> "", params |-> <<>>]

\* json.Marshal succeeds on the command
Encodable(c) == \A i \in 1..Len(c.params) : c.params[i] # Unencodable

\* what is written on a connection: a JSON document or literal bytes
JSONDoc(c) == [kind |-> "json", doc |-> c, text |-> ""]
Bytes(t) == [kind |-> "bytes", doc |-> NoCmd, text |-> t]

\* json.Encoder.Encode(cmd): the JSON object followed by a newline
EncodeFrame(c) == << JSONDoc(c), Bytes("\n") >>

(***************************************************************************)
(* Responses                                                               *)
(***************************************************************************)
\* JSON values of a result array, as the peer writes them
JStr(s) == [t |-> "string", v |-> s]
JNum(n) == [t |-> "number", v |-> ToString(n)]

\* what json.Unmarshal stores in an interface{} for a JSON value
GoValue(j) ==
    IF j.t = "number" THEN [t |-> "float64", v |-> j.v]
    ELSE [t |-> "string", v |-> j.v]

ResultArrays ==
    { <<JStr("on")>>, <<JStr("off"), JNum(50)>>, <<>> }

\* the "error" member of a response: null/absent, or {code, message}
NullError == [null |-> TRUE, code |-> 0, message |-> ""]
DeviceError(code, message) == [null |-> FALSE, code |-> code, message |-> message]

DeviceErrors ==
    { DeviceError(-1, "unsupported method"),
      DeviceError(-5000, "general error") }

\* the response frames a peer may write for a command with identifier id:
\* it echoes id or another one, carries a result, an error, both or neither
ResponseFrames(id) ==
    [ kind : {"json"},
      id : {id, OtherId(id)},
      hasResult : {TRUE},
      result : ResultArrays,
      error : DeviceErrors \cup {NullError} ]
    \cup
    [ kind : {"json"},
      id : {id, OtherId(id)},
      hasResult : {FALSE},
      result : {<<>>},
      error : DeviceErrors \cup {NullError} ]

NoFrame == [kind |-> "none", id |-> 0, hasResult |-> FALSE, result |-> <<>>,
            error |-> NullError]
Garbage == [NoFrame EXCEPT !.kind = "garbage"]  \* bytes that are no JSON value
EOF == [NoFrame EXCEPT !.kind = "eof"]          \* the peer closed the connection

\* the Response struct of lines 94-101; nil marks the nil *Response
NilResponse == [nil |-> TRUE, ID |-> 0, Result |-> <<>>, Error |-> NullError]

\* json.Decoder.Decode(&rs) on a well-formed frame: absent members keep
\* the zero value of the field
DecodeResponse(f) ==
    [ nil |-> FALSE,
      ID |-> f.id,
      Result |-> IF f.hasResult
                 THEN [i \in 1..Len(f.result) |-> GoValue(f.result[i])]
                 ELSE <<>>,
      Error |-> f.error ]

(***************************************************************************)
(* Errors                                                                  *)
(***************************************************************************)
NoErr == [text |-> "", cause |-> "nil"]

\* fmt.Errorf("[%s] <what>%w", y.address, err): the text ends with the text
\* of the wrapped error, which errors.Is and errors.As still find
Wrap(what, cause) ==
    [text |-> "[" \o Address \o "] " \o what \o cause, cause |-> cause]

\* %v of rs.Error, a pointer to struct{Code int; Message string}
FormatError(e) == "&{" \o ToString(e.code) \o " " \o e.message \o "}"

\* line 207: fmt.Errorf("[%s] command execution error, received %v", ...)
ExecError(e) ==
    [ text |-> "[" \o Address \o "] command execution error, received "
                 \o FormatError(e),
      cause |-> "nil" ]

NoRet == [set |-> FALSE, resp |-> NilResponse, err |-> NoErr]
Return(resp, err) == [set |-> TRUE, resp |-> resp, err |-> err]

(***************************************************************************)
(* yeelight.send (src/yeelight.go:172-211)                                 *)
(***************************************************************************)
SendInit ==
    /\ mu = NoCaller
    /\ pc = [c \in Callers |-> "idle"]
    /\ args = [c \in Callers |-> [method |-> "", params |-> <<>>]]
    /\ cmd = [c \in Callers |-> NoCmd]
    /\ conn = [c \in Callers |-> "none"]
    /\ peer = [c \in Callers |-> "none"]
    /\ wire = [c \in Callers |-> <<>>]
    /\ inbox = [c \in Callers |-> NoFrame]
    /\ rs = [c \in Callers |-> NilResponse]
    /\ ret = [c \in Callers |-> NoRet]

\* a caller (a typed operation) calls y.send(method, args...)
Call(c) ==
    /\ pc[c] \in {"idle", "returned"}
    /\ \E a \in CallArgs : args' = [args EXCEPT ![c] = a]
    /\ pc' = [pc EXCEPT ![c] = "lock"]
    /\ cmd' = [cmd EXCEPT ![c] = NoCmd]
    /\ conn' = [conn EXCEPT ![c] = "none"]
    /\ peer' = [peer EXCEPT ![c] = "none"]
    /\ wire' = [wire EXCEPT ![c] = <<>>]
    /\ inbox' = [inbox EXCEPT ![c] = NoFrame]
    /\ rs' = [rs EXCEPT ![c] = NilResponse]
    /\ ret' = [ret EXCEPT ![c] = NoRet]
    /\ UNCHANGED mu
    /\ UNCHANGED <<listenVars, discoverVars>>

\* a faulty variant: the lock is taken without waiting for it to be free
LockNoWait(c) ==
    /\ pc[c] = "lock"
    /\ mu' = c
    /\ pc' = [pc EXCEPT ![c] = "cmd"]
    /\ UNCHANGED <<args, cmd, conn, peer, wire, inbox, rs, ret>>
    /\ UNCHANGED <<listenVars, discoverVars>>

\* line 173: y.mu.Lock() blocks until the mutex is free
Lock(c) ==
    /\ pc[c] = "lock"
    /\ mu = NoCaller
    /\ mu' = c
    /\ pc' = [pc EXCEPT ![c] = "cmd"]
    /\ UNCHANGED <<args, cmd, conn, peer, wire, inbox, rs, ret>>
    /\ UNCHANGED <<listenVars, discoverVars>>

\* lines 176-180: the command, its id drawn from y.rnd.Intn(100)
MakeCommand(c) ==
    /\ pc[c] = "cmd"
    /\ \E id \in Ids :
         cmd' = [cmd EXCEPT ![c] = [id |-> id, method |-> args[c].method,
                                    params |-> args[c].params]]
    /\ pc' = [pc EXCEPT ![c] = "dial"]
    /\ UNCHANGED <<mu, args, conn, peer, wire, inbox, rs, ret>>
    /\ UNCHANGED <<listenVars, discoverVars>>

\* how a peer may treat a connection: it answers (sooner or later), it
\* reads the command and never answers, it resets the connection so that
\* writes may fail, or it accepts the connection and never reads from it
PeerPlans == {"answer", "silent", "reset", "stalled"}

\* lines 182-186: net.Dial; on failure send returns, only Unlock is deferred
Dial(c) ==
    /\ pc[c] = "dial"
    /\ \/ /\ ret' = [ret EXCEPT ![c] =
                       Return(NilResponse, Wrap("could not dial address: ", "dial"))]
          /\ pc' = [pc EXCEPT ![c] = "defer_unlock"]
          /\ UNCHANGED <<conn, peer>>
       \/ /\ \E p \in PeerPlans : peer' = [peer EXCEPT ![c] = p]
          /\ conn' = [conn EXCEPT ![c] = "open"]
          /\ pc' = [pc EXCEPT ![c] = "deadline"]
          /\ UNCHANGED ret
    /\ UNCHANGED <<mu, args, cmd, wire, inbox, rs>>
    /\ UNCHANGED <<listenVars, discoverVars>>

\* lines 188-190: conn.SetReadDeadline(now + 2s)
SetReadDeadline(c) ==
    /\ pc[c] = "deadline"
    /\ \/ /\ pc' = [pc EXCEPT ![c] = "encode"]
          /\ UNCHANGED ret
       \/ /\ ret' = [ret EXCEPT ![c] =
                       Return(NilResponse, Wrap("could not set read deadline: ", "conn"))]
          /\ pc' = [pc EXCEPT ![c] = "defer_close"]
    /\ UNCHANGED <<mu, args, cmd, conn, peer, wire, inbox, rs>>
    /\ UNCHANGED <<listenVars, discoverVars>>

\* a write on the connection fails only when the peer reset it
WriteMayFail(c) == peer[c] = "reset"

\* conn.Write has no deadline (only SetReadDeadline is called): it returns
\* when the bytes are in the socket buffers, and waits while they are full
\* and the peer does not read
WriteBlocks(c) ==
    /\ peer[c] = "stalled"
    /\ \E i \in 1..Len(cmd[c].params) : cmd[c].params[i] = Huge

\* lines 192-194: json.NewEncoder(conn).Encode(cmd)
Encode(c) ==
    /\ pc[c] = "encode"
    /\ \/ /\ Encodable(cmd[c])
          /\ ~WriteBlocks(c)
          /\ wire' = [wire EXCEPT ![c] = @ \o EncodeFrame(cmd[c])]
          /\ pc' = [pc EXCEPT ![c] = "trailer"]
          /\ UNCHANGED ret
       \/ /\ Encodable(cmd[c])
          /\ WriteBlocks(c)
          /\ pc' = [pc EXCEPT ![c] = "writing"]
          /\ UNCHANGED <<wire, ret>>
       \/ /\ ~Encodable(cmd[c]) \/ WriteMayFail(c)
          /\ ret' = [ret EXCEPT ![c] =
                       Return(NilResponse, Wrap("could not encode command: ",
                              IF Encodable(cmd[c]) THEN "write" ELSE "marshal"))]
          /\ pc' = [pc EXCEPT ![c] = "defer_close"]
          /\ UNCHANGED wire
    /\ UNCHANGED <<mu, args, cmd, conn, peer, inbox, rs>>
    /\ UNCHANGED <<listenVars, discoverVars>>

\* lines 196-198: fmt.Fprint(conn, crlf)
Trailer(c) ==
    /\ pc[c] = "trailer"
    /\ \/ /\ wire' = [wire EXCEPT ![c] = @ \o <<Bytes(crlf)>>]
          /\ pc' = [pc EXCEPT ![c] = "decode"]
          /\ UNCHANGED ret
       \/ /\ WriteMayFail(c)
          /\ ret' = [ret EXCEPT ![c] =
                       Return(NilResponse, Wrap("cannot write trailer: ", "write"))]
          /\ pc' = [pc EXCEPT ![c] = "defer_close"]
          /\ UNCHANGED wire
    /\ UNCHANGED <<mu, args, cmd, conn, peer, inbox, rs>>
    /\ UNCHANGED <<listenVars, discoverVars>>

\* the peer, having received a complete command frame, answers on the
\* connection: a response frame, bytes that are no JSON, or it closes
PeerRespond(c) ==
    /\ conn[c] = "open"
    /\ peer[c] = "answer"
    /\ pc[c] = "decode"
    /\ inbox[c] = NoFrame
    /\ \E f \in ResponseFrames(cmd[c].id) \cup {Garbage, EOF} :
         inbox' = [inbox EXCEPT ![c] = f]
    /\ UNCHANGED <<mu, pc, args, cmd, conn, peer, wire, rs, ret>>
    /\ UNCHANGED <<listenVars, discoverVars>>

\* lines 201-204: json.NewDecoder(conn).Decode(&rs) returns once the peer
\* has written something (or closed); garbage and EOF are decode errors
Decode(c) ==
    /\ pc[c] = "decode"
    /\ inbox[c] # NoFrame
    /\ IF inbox[c].kind = "json"
       THEN /\ rs' = [rs EXCEPT ![c] = DecodeResponse(inbox[c])]
            /\ pc' = [pc EXCEPT ![c] = "check"]
            /\ UNCHANGED ret
       ELSE /\ ret' = [ret EXCEPT ![c] =
                         Return(NilResponse, Wrap("cannot parse command result ",
                                IF inbox[c].kind = "eof" THEN "EOF" ELSE "syntax"))]
            /\ pc' = [pc EXCEPT ![c] = "defer_close"]
            /\ UNCHANGED rs
    /\ UNCHANGED <<mu, args, cmd, conn, peer, wire, inbox>>
    /\ UNCHANGED <<listenVars, discoverVars>>

\* a faulty variant: no read deadline, the read never gives up
DecodeWithoutDeadline(c) ==
    /\ pc[c] = "decode"
    /\ inbox[c] = NoFrame
    /\ FALSE
    /\ UNCHANGED vars

\* lines 188, 202-204: the read deadline passes with nothing to read; Decode
\* returns the timeout error of the connection
DecodeTimeout(c) ==
    /\ pc[c] = "decode"
    /\ inbox[c] = NoFrame
    /\ ret' = [ret EXCEPT ![c] =
                 Return(NilResponse, Wrap("cannot parse command result ", "timeout"))]
    /\ pc' = [pc EXCEPT ![c] = "defer_close"]
    /\ UNCHANGED <<mu, args, cmd, conn, peer, wire, inbox, rs>>
    /\ UNCHANGED <<listenVars, discoverVars>>

\* a faulty variant: rs.Error is not looked at
CheckIgnoresError(c) ==
    /\ pc[c] = "check"
    /\ ret' = [ret EXCEPT ![c] = Return(rs[c], NoErr)]
    /\ pc' = [pc EXCEPT ![c] = "defer_close"]
    /\ UNCHANGED <<mu, args, cmd, conn, peer, wire, inbox, rs>>
    /\ UNCHANGED <<listenVars, discoverVars>>

\* a faulty variant: the Response is returned without its result
CheckDropsResult(c) ==
    /\ pc[c] = "check"
    /\ ret' = [ret EXCEPT ![c] =
                 IF ~rs[c].Error.null
                 THEN Return(NilResponse, ExecError(rs[c].Error))
                 ELSE Return([rs[c] EXCEPT !.Result = <<>>], NoErr)]
    /\ pc' = [pc EXCEPT ![c] = "defer_close"]
    /\ UNCHANGED <<mu, args, cmd, conn, peer, wire, inbox, rs>>
    /\ UNCHANGED <<listenVars, discoverVars>>

\* lines 206-210: a device error fails the call, anything else is returned
Check(c) ==
    /\ pc[c] = "check"
    /\ ret' = [ret EXCEPT ![c] =
                 IF ~rs[c].Error.null
                 THEN Return(NilResponse, ExecError(rs[c].Error))
                 ELSE Return(rs[c], NoErr)]
    /\ pc' = [pc EXCEPT ![c] = "defer_close"]
    /\ UNCHANGED <<mu, args, cmd, conn, peer, wire, inbox, rs>>
    /\ UNCHANGED <<listenVars, discoverVars>>

\* a faulty variant: the connection is not closed on return
DeferCloseSkipped(c) ==
    /\ pc[c] = "defer_close"
    /\ pc' = [pc EXCEPT ![c] = "defer_unlock"]
    /\ UNCHANGED <<mu, args, cmd, conn, peer, wire, inbox, rs, ret>>
    /\ UNCHANGED <<listenVars, discoverVars>>

\* line 186: defer conn.Close(), run first when send returns
DeferClose(c) ==
    /\ pc[c] = "defer_close"
    /\ conn' = [conn EXCEPT ![c] = "closed"]
    /\ pc' = [pc EXCEPT ![c] = "defer_unlock"]
    /\ UNCHANGED <<mu, args, cmd, peer, wire, inbox, rs, ret>>
    /\ UNCHANGED <<listenVars, discoverVars>>

\* a faulty variant: the mutex is released on the success path only
DeferUnlockOnSuccess(c) ==
    /\ pc[c] = "defer_unlock"
    /\ mu' = IF ret[c].err = NoErr THEN NoCaller ELSE mu
    /\ pc' = [pc EXCEPT ![c] = "returned"]
    /\ args' = [args EXCEPT ![c] = [method |-> "", params |-> <<>>]]
    /\ cmd' = [cmd EXCEPT ![c] = NoCmd]
    /\ peer' = [peer EXCEPT ![c] = "none"]
    /\ wire' = [wire EXCEPT ![c] = <<>>]
    /\ inbox' = [inbox EXCEPT ![c] = NoFrame]
    /\ rs' = [rs EXCEPT ![c] = NilResponse]
    /\ ret' = [ret EXCEPT ![c] = NoRet]
    /\ UNCHANGED conn
    /\ UNCHANGED <<listenVars, discoverVars>>

\* line 174: defer y.mu.Unlock(), run last; send has returned after it, its
\* locals are gone and its results are the caller's
DeferUnlock(c) ==
    /\ pc[c] = "defer_unlock"
    /\ mu' = NoCaller
    /\ pc' = [pc EXCEPT ![c] = "returned"]
    /\ args' = [args EXCEPT ![c] = [method |-> "", params |-> <<>>]]
    /\ cmd' = [cmd EXCEPT ![c] = NoCmd]
    /\ peer' = [peer EXCEPT ![c] = "none"]
    /\ wire' = [wire EXCEPT ![c] = <<>>]
    /\ inbox' = [inbox EXCEPT ![c] = NoFrame]
    /\ rs' = [rs EXCEPT ![c] = NilResponse]
    /\ ret' = [ret EXCEPT ![c] = NoRet]
    /\ UNCHANGED conn
    /\ UNCHANGED <<listenVars, discoverVars>>

SendNext ==
    \E c \in Callers :
        \/ Call(c)
        \/ Lock(c)
        \/ MakeCommand(c)
        \/ Dial(c)
        \/ SetReadDeadline(c)
        \/ Encode(c)
        \/ Trailer(c)
        \/ PeerRespond(c)
        \/ Decode(c)
        \/ DecodeTimeout(c)
        \/ Check(c)
        \/ DeferClose(c)
        \/ DeferUnlock(c)

(***************************************************************************)
(* yeelight.Listen (src/yeelight.go:213-239)                               *)
(***************************************************************************)
\* the Notification struct of lines 88-91; the k-th notification of the peer
NoNotif == [Method |-> "", Params |-> <<>>]
Notif(k) == [Method |-> "props", Params |-> <<"bright", ToString(10 * k)>>]

\* A notification frame on the wire is one JSON object and CRLF. A Read of
\* the connection may end anywhere, so the object is two pieces: its head
\* {"method":"props", and its tail "params":{...}}
FrameHead(k) == [part |-> "head", seq |-> k, method |-> Notif(k).Method, params |-> <<>>]
FrameTail(k) == [part |-> "tail", seq |-> k, method |-> "", params |-> Notif(k).Params]
CRLF == [part |-> "crlf", seq |-> 0, method |-> "", params |-> <<>>]
Junk == [part |-> "junk", seq |-> 0, method |-> "", params |-> <<>>]

NotifFrame(k) == <<FrameHead(k), FrameTail(k), CRLF>>
JunkFrame == <<Junk, CRLF>>

\* the decoder skips white space before a value
RECURSIVE SkipSpace(_)
SkipSpace(b) ==
    IF b # <<>> /\ Head(b).part = "crlf" THEN SkipSpace(Tail(b)) ELSE b

\* json.Decoder.Decode on the bytes b buffered so far: it needs more bytes,
\* it has one complete JSON object, or the bytes are no JSON
Scan(b) ==
    LET t == SkipSpace(b) IN
    IF t = <<>> THEN [status |-> "more", value |-> NoNotif]
    ELSE IF t[1].part # "head" THEN [status |-> "error", value |-> NoNotif]
    ELSE IF Len(t) = 1 THEN [status |-> "more", value |-> NoNotif]
    ELSE IF t[2].part = "tail" /\ t[2].seq = t[1].seq
         THEN [status |-> "value",
               value |-> [Method |-> t[1].method, Params |-> t[2].params]]
         ELSE [status |-> "error", value |-> NoNotif]

\* lines 214-218: Listen dials; on failure it returns the error and starts
\* no goroutine, otherwise it starts the goroutine and returns the channel
Listen ==
    /\ lpc = "none"
    /\ \/ /\ lpc' = "failed"
          /\ UNCHANGED lconn
       \/ /\ lpc' = "top"
          /\ lconn' = "open"
    /\ UNCHANGED <<stream, peerClosed, dbuf, notif, chClosed, cancelled,
                   consumer, sent, received, nwritten, njunk>>
    /\ UNCHANGED <<sendVars, discoverVars>>

\* a faulty variant: the default branch runs although ctx is done
LoopTopIgnoresCancel ==
    /\ lpc = "top"
    /\ lpc' = "read"
    /\ dbuf' = <<>>
    /\ UNCHANGED <<lconn, stream, peerClosed, notif, chClosed, cancelled,
                   consumer, sent, received, nwritten, njunk>>
    /\ UNCHANGED <<sendVars, discoverVars>>

\* lines 224-230: the select; ctx.Done() wins when it is closed, otherwise
\* the default branch creates a new json.Decoder on the connection
LoopTop ==
    /\ lpc = "top"
    /\ lpc' = IF cancelled THEN "defer_close" ELSE "read"
    /\ dbuf' = <<>>
    /\ UNCHANGED <<lconn, stream, peerClosed, notif, chClosed, cancelled,
                   consumer, sent, received, nwritten, njunk>>
    /\ UNCHANGED <<sendVars, discoverVars>>

\* line 231: Decode reads from the connection; one Read returns any
\* non-empty prefix of what the peer has written. With a complete value the
\* decoder returns it, and whatever it has buffered beyond the value is
\* dropped with the decoder; bytes that are no JSON are an error, and the
\* iteration ends without emitting
ReadChunk ==
    /\ lpc = "read"
    /\ stream # <<>>
    /\ \E n \in 1..Len(stream) :
         LET b == dbuf \o SubSeq(stream, 1, n)
             r == Scan(b)
         IN /\ stream' = SubSeq(stream, n + 1, Len(stream))
            /\ dbuf' = IF r.status = "more" THEN b ELSE <<>>
            /\ notif' = IF r.status = "value" THEN r.value ELSE notif
            /\ lpc' = CASE r.status = "more" -> "read"
                        [] r.status = "value" -> "send"
                        [] r.status = "error" -> "top"
    /\ UNCHANGED <<lconn, peerClosed, chClosed, cancelled, consumer, sent,
                   received, nwritten, njunk>>
    /\ UNCHANGED <<sendVars, discoverVars>>

\* line 231: the peer has closed and everything has been read: Read returns
\* io.EOF, Decode returns an error, the iteration ends without emitting
ReadEOF ==
    /\ lpc = "read"
    /\ stream = <<>>
    /\ peerClosed
    /\ lpc' = "top"
    /\ dbuf' = <<>>
    /\ UNCHANGED <<lconn, stream, peerClosed, notif, chClosed, cancelled,
                   consumer, sent, received, nwritten, njunk>>
    /\ UNCHANGED <<sendVars, discoverVars>>

\* a faulty variant: a send that does not wait for the receiver and drops
\* the notification when nobody receives
SendOrDrop ==
    /\ lpc = "send"
    /\ received' = IF consumer THEN Append(received, notif) ELSE received
    /\ notif' = NoNotif
    /\ lpc' = "top"
    /\ UNCHANGED <<lconn, stream, peerClosed, dbuf, chClosed, cancelled,
                   consumer, sent, nwritten, njunk>>
    /\ UNCHANGED <<sendVars, discoverVars>>

\* line 232: notificationsCh <- &notif completes when the consumer receives
ConsumerReceive ==
    /\ lpc = "send"
    /\ consumer
    /\ received' = Append(received, notif)
    /\ notif' = NoNotif
    /\ lpc' = "top"
    /\ UNCHANGED <<lconn, stream, peerClosed, dbuf, chClosed, cancelled,
                   consumer, sent, nwritten, njunk>>
    /\ UNCHANGED <<sendVars, discoverVars>>

\* line 222: defer c.Close(), run first when the goroutine returns
ListenDeferClose ==
    /\ lpc = "defer_close"
    /\ lconn' = "closed"
    /\ lpc' = "defer_chan"
    /\ UNCHANGED <<stream, peerClosed, dbuf, notif, chClosed, cancelled,
                   consumer, sent, received, nwritten, njunk>>
    /\ UNCHANGED <<sendVars, discoverVars>>

\* line 221: defer close(notificationsCh), run last
ListenDeferCloseChan ==
    /\ lpc = "defer_chan"
    /\ chClosed' = TRUE
    /\ lpc' = "done"
    /\ UNCHANGED <<lconn, stream, peerClosed, dbuf, notif, cancelled,
                   consumer, sent, received, nwritten, njunk>>
    /\ UNCHANGED <<sendVars, discoverVars>>

\* ---- the environment of the listener ----
\* the peer writes its next notification frame
PeerNotify ==
    /\ lconn = "open"
    /\ ~peerClosed
    /\ nwritten < MaxNotifs
    /\ nwritten' = nwritten + 1
    /\ stream' = stream \o NotifFrame(nwritten + 1)
    /\ sent' = Append(sent, Notif(nwritten + 1))
    /\ UNCHANGED <<lpc, lconn, peerClosed, dbuf, notif, chClosed, cancelled,
                   consumer, received, njunk>>
    /\ UNCHANGED <<sendVars, discoverVars>>

\* the peer writes a frame that is no JSON
PeerJunk ==
    /\ lconn = "open"
    /\ ~peerClosed
    /\ njunk < MaxJunk
    /\ njunk' = njunk + 1
    /\ stream' = stream \o JunkFrame
    /\ UNCHANGED <<lpc, lconn, peerClosed, dbuf, notif, chClosed, cancelled,
                   consumer, sent, received, nwritten>>
    /\ UNCHANGED <<sendVars, discoverVars>>

\* the peer closes the connection, or the connection breaks
PeerClose ==
    /\ lconn = "open"
    /\ ~peerClosed
    /\ peerClosed' = TRUE
    /\ UNCHANGED <<lpc, lconn, stream, dbuf, notif, chClosed, cancelled,
                   consumer, sent, received, nwritten, njunk>>
    /\ UNCHANGED <<sendVars, discoverVars>>

\* the owner of ctx cancels it
Cancel ==
    /\ lpc \notin {"none", "failed"}
    /\ ~cancelled
    /\ cancelled' = TRUE
    /\ UNCHANGED <<lpc, lconn, stream, peerClosed, dbuf, notif, chClosed,
                   consumer, sent, received, nwritten, njunk>>
    /\ UNCHANGED <<sendVars, discoverVars>>

\* the consumer stops receiving from the channel
ConsumerStop ==
    /\ lpc \notin {"none", "failed"}
    /\ consumer
    /\ consumer' = FALSE
    /\ UNCHANGED <<lpc, lconn, stream, peerClosed, dbuf, notif, chClosed,
                   cancelled, sent, received, nwritten, njunk>>
    /\ UNCHANGED <<sendVars, discoverVars>>

ListenNext ==
    \/ Listen
    \/ LoopTop
    \/ ReadChunk
    \/ ReadEOF
    \/ ConsumerReceive
    \/ ListenDeferClose
    \/ ListenDeferCloseChan
    \/ PeerNotify
    \/ PeerJunk
    \/ PeerClose
    \/ Cancel
    \/ ConsumerStop

\* the steps the goroutine takes on its own, and a receiving consumer
ListenProgress ==
    \/ LoopTop
    \/ ReadChunk
    \/ ReadEOF
    \/ ListenDeferClose
    \/ ListenDeferCloseChan

(***************************************************************************)
(* Discover, parseAddr, New (src/yeelight.go:108-169)                      *)
(***************************************************************************)
\* A discovery reply is text: lines and line ends. A line is the status
\* line, a header line "key: value" or a line that is neither. The value of
\* a header is kept in pieces so that the prefix and the colon can be found.
StatusLine == [kind |-> "status", key |-> "HTTP/1.1 200 OK", value |-> <<>>]
HeaderLine(k, v) == [kind |-> "header", key |-> k, value |-> v]
Noise == [kind |-> "text", key |-> "NOTIFY", value |-> <<>>]
EOL == [kind |-> "crlf", key |-> crlf, value |-> <<>>]
\* the beginning of a line, cut by the end of the buffer
CutLine == [kind |-> "cut", key |-> "", value |-> <<>>]

Scheme == "yeelight://"

HeaderLines ==
    { HeaderLine("LOCATION", <<Scheme, "192.168.1.50", ":", "55443">>),
      HeaderLine("Location", <<Scheme, "10.0.0.7", ":", "1982">>),
      HeaderLine("Server", <<"POSIX UPnP/1.0 YGLC/1">>) }

\* sequences of at most n header lines, each ended by CRLF
RECURSIVE HeaderBlocks(_)
HeaderBlocks(n) ==
    IF n = 0 THEN {<<>>}
    ELSE LET shorter == HeaderBlocks(n - 1) IN
         shorter \cup {b \o <<h, EOL>> : b \in shorter, h \in HeaderLines}

\* the datagrams a responder may send: a status line (or a line that is
\* none, or nothing), header lines, with or without the blank line that
\* ends the headers, and each of these cut before its last line end
Replies ==
    LET whole == { st \o b \o e :
                     st \in {<<StatusLine, EOL>>, <<Noise, EOL>>, <<>>},
                     b \in HeaderBlocks(MaxHeaders),
                     e \in {<<>>, <<EOL>>} }
    IN whole \cup {SubSeq(m, 1, Len(m) - 1) : m \in whole \ {<<>>}}

\* the responders on the network; each answers a search at most once
Responders == {"bulb1", "bulb2"}

\* strings.HasSuffix(msg, crlf)
HasSuffixCRLF(msg) == msg # <<>> /\ msg[Len(msg)] = EOL

\* the canonical form of a header key (textproto.CanonicalMIMEHeaderKey)
Canonical(k) ==
    CASE k = "LOCATION" -> "Location"
      [] k = "location" -> "Location"
      [] OTHER -> k

\* textproto.Reader.ReadMIMEHeader on what follows the status line: header
\* lines up to a blank line; the input ending before the blank line, and a
\* line without a colon, are errors
RECURSIVE ReadMIMEHeader(_, _)
ReadMIMEHeader(m, acc) ==
    IF m = <<>> THEN [ok |-> FALSE, header |-> <<>>]
    ELSE IF m[1] = EOL THEN [ok |-> TRUE, header |-> acc]
    ELSE IF m[1].kind # "header" THEN [ok |-> FALSE, header |-> <<>>]
    ELSE LET line == [key |-> Canonical(m[1].key), value |-> m[1].value]
             rest == IF Len(m) >= 2 /\ m[2] = EOL
                     THEN SubSeq(m, 3, Len(m)) ELSE Tail(m)
         IN ReadMIMEHeader(rest, Append(acc, line))

\* http.ReadResponse: the status line, then the headers
ReadResponse(m) ==
    IF m = <<>> \/ m[1].kind # "status" THEN [ok |-> FALSE, header |-> <<>>]
    ELSE ReadMIMEHeader(IF Len(m) >= 2 /\ m[2] = EOL
                        THEN SubSeq(m, 3, Len(m)) ELSE Tail(m), <<>>)

\* http.Header.Get: the first value stored under the canonical key, or ""
RECURSIVE HeaderGet(_, _)
HeaderGet(h, k) ==
    IF h = <<>> THEN <<>>
    ELSE IF h[1].key = Canonical(k) THEN h[1].value
    ELSE HeaderGet(Tail(h), k)

\* a faulty variant: the scheme is left in place
TrimPrefixKeepsScheme(v) == v

\* strings.TrimPrefix(v, "yeelight://")
TrimPrefix(v) == IF v # <<>> /\ v[1] = Scheme THEN Tail(v) ELSE v

\* a faulty variant: the value of the first LOCATION line of the text, whether
\* or not the text is a response
RECURSIVE parseAddrByLine(_)
parseAddrByLine(msg) ==
    IF msg = <<>> THEN <<>>
    ELSE IF msg[1].kind = "header" /\ Canonical(msg[1].key) = "Location"
         THEN TrimPrefix(msg[1].value)
         ELSE parseAddrByLine(Tail(msg))

\* lines 145-156: parseAddr
parseAddr(msg) ==
    LET m == IF HasSuffixCRLF(msg) THEN msg \o <<EOL>> ELSE msg
        resp == ReadResponse(m)
    IN IF ~resp.ok THEN <<>>
       ELSE TrimPrefix(HeaderGet(resp.header, "LOCATION"))

\* the text of a string kept in pieces
RECURSIVE Join(_)
Join(v) == IF v = <<>> THEN "" ELSE v[1] \o Join(Tail(v))

\* the number of bytes of a line or line end, and of a datagram
ByteLen(t) ==
    IF t.kind = "header" THEN Len(t.key) + Len(": ") + Len(Join(t.value))
    ELSE Len(t.key)

\* line 130, 139: ReadFromUDP copies at most len(buf) bytes of the datagram,
\* rs is buf[0:size]
RECURSIVE TakeBytes(_, _)
TakeBytes(m, n) ==
    IF m = <<>> \/ n = 0 THEN <<>>
    ELSE IF ByteLen(m[1]) <= n
         THEN <<m[1]>> \o TakeBytes(Tail(m), n - ByteLen(m[1]))
         ELSE <<CutLine>>

\* lines 159-169: New appends the default port to an address without colon
New(address) ==
    IF \E i \in 1..Len(address) : address[i] = ":"
    THEN address
    ELSE address \o <<":", ToString(DefaultPort)>>

ErrDiscoverNoDeviceFound == "no device found"

\* what Discover returns: a device (its address) or nil, an error or nil,
\* and the line of the return statement
NoDevice == [set |-> FALSE, device |-> FALSE, address |-> "", err |-> "nil", line |-> 0]
DiscoverFails(e, l) ==
    [set |-> TRUE, device |-> FALSE, address |-> "", err |-> e, line |-> l]
DiscoverFinds(a, l) ==
    [set |-> TRUE, device |-> TRUE, address |-> Join(a), err |-> "nil", line |-> l]

NoBuf == [read |-> FALSE, data |-> <<>>]

\* lines 110-118: ResolveUDPAddr of the constant address, ListenPacket
OpenSocket ==
    /\ dpc = "start"
    /\ \/ /\ sock' = "open"
          /\ dpc' = "write"
          /\ UNCHANGED dret
       \/ /\ dret' = DiscoverFails("listen", 117)
          /\ dpc' = "returned"
          /\ UNCHANGED sock
    /\ UNCHANGED <<dgrams, replied, buf>>
    /\ UNCHANGED <<sendVars, listenVars>>

\* lines 120-123: WriteToUDP(discoverMSG)
WriteSearch ==
    /\ dpc = "write"
    /\ \/ /\ dpc' = "deadline"
          /\ UNCHANGED dret
       \/ /\ dret' = DiscoverFails("write", 122)
          /\ dpc' = "returned"
    /\ UNCHANGED <<sock, dgrams, replied, buf>>
    /\ UNCHANGED <<sendVars, listenVars>>

\* lines 125-127: SetReadDeadline(now + 3s)
SetDiscoverDeadline ==
    /\ dpc = "deadline"
    /\ \/ /\ dpc' = "read"
          /\ UNCHANGED dret
       \/ /\ dret' = DiscoverFails("deadline", 126)
          /\ dpc' = "returned"
    /\ UNCHANGED <<sock, dgrams, replied, buf>>
    /\ UNCHANGED <<sendVars, listenVars>>

\* a responder that received the search answers with a datagram
Respond(r) ==
    /\ dpc \in {"deadline", "read"}
    /\ r \notin replied
    /\ \E m \in Replies : dgrams' = Append(dgrams, m)
    /\ replied' = replied \cup {r}
    /\ UNCHANGED <<dpc, sock, buf, dret>>
    /\ UNCHANGED <<sendVars, listenVars>>

\* lines 129-130: ReadFromUDP returns the first datagram that arrived (the
\* datagrams of Replies are all shorter than the buffer)
ReadReply ==
    /\ dpc = "read"
    /\ dgrams # <<>>
    /\ buf' = [read |-> TRUE, data |-> TakeBytes(dgrams[1], BufSize)]
    /\ dpc' = "close"
    /\ UNCHANGED <<sock, dgrams, replied, dret>>
    /\ UNCHANGED <<sendVars, listenVars>>

\* a faulty variant: the failed read is ignored and the empty buffer parsed
ReadTimeoutFindsDefault ==
    /\ dpc = "read"
    /\ dgrams = <<>>
    /\ dret' = DiscoverFinds(New(<<>>), 141)
    /\ dpc' = "returned"
    /\ UNCHANGED <<sock, dgrams, replied, buf>>
    /\ UNCHANGED <<sendVars, listenVars>>

\* lines 130-133: the deadline passes without a datagram
ReadTimeout ==
    /\ dpc = "read"
    /\ dgrams = <<>>
    /\ dret' = DiscoverFails(ErrDiscoverNoDeviceFound, 132)
    /\ dpc' = "returned"
    /\ UNCHANGED <<sock, dgrams, replied, buf>>
    /\ UNCHANGED <<sendVars, listenVars>>

\* lines 135-141: pc.Close(), then parseAddr and New
CloseAndParse ==
    /\ dpc = "close"
    /\ \/ /\ sock' = "closed"
          /\ dret' = DiscoverFinds(New(parseAddr(buf.data)), 141)
       \/ /\ dret' = DiscoverFails("close", 136)
          /\ UNCHANGED sock
    /\ dpc' = "returned"
    /\ UNCHANGED <<dgrams, replied, buf>>
    /\ UNCHANGED <<sendVars, listenVars>>

DiscoverNext ==
    \/ OpenSocket
    \/ WriteSearch
    \/ SetDiscoverDeadline
    \/ \E r \in Responders : Respond(r)
    \/ ReadReply
    \/ ReadTimeout
    \/ CloseAndParse

(***************************************************************************)
(* Idle values of the other components                                     *)
(***************************************************************************)
ListenIdle ==
    /\ lpc = "none"
    /\ lconn = "none"
    /\ stream = <<>>
    /\ peerClosed = FALSE
    /\ dbuf = <<>>
    /\ notif = NoNotif
    /\ chClosed = FALSE
    /\ cancelled = FALSE
    /\ consumer = TRUE
    /\ sent = <<>>
    /\ received = <<>>
    /\ nwritten = 0
    /\ njunk = 0

DiscoverIdle ==
    /\ dpc = "start"
    /\ sock = "none"
    /\ dgrams = <<>>
    /\ replied = {}
    /\ buf = NoBuf
    /\ dret = NoDevice

Init == SendInit /\ ListenIdle /\ DiscoverIdle

Next == SendNext

Spec == Init /\ [][Next]_vars

\* the steps of send that the Go scheduler and the deadline timer take on
\* their own: everything but the caller's decision to call and the peer
Progress(c) ==
    \/ Lock(c)
    \/ MakeCommand(c)
    \/ Dial(c)
    \/ SetReadDeadline(c)
    \/ Encode(c)
    \/ Trailer(c)
    \/ Decode(c)
    \/ DecodeTimeout(c)
    \/ Check(c)
    \/ DeferClose(c)
    \/ DeferUnlock(c)

FairSpec == Spec /\ \A c \in Callers : WF_vars(Progress(c))

(***************************************************************************)
(* Properties of send                                                      *)
(***************************************************************************)
\* caller c is between the acquisition of y.mu and the return of send
InSend(c) ==
    pc[c] \in {"cmd", "dial", "deadline", "encode", "writing", "trailer",
               "decode", "check", "defer_close", "defer_unlock"}

\* the return statement of send has been executed by c
Returning(c) == pc[c] \in {"defer_close", "defer_unlock"} /\ ret[c].set

\* C1: at most one send of a transport is between lock acquisition and
\* return; the request id is drawn and the connection opened, written and
\* read only by the caller that holds the lock
C1_OneSendInFlight ==
    /\ \A c \in Callers : InSend(c) => mu = c
    /\ Cardinality({c \in Callers : InSend(c)}) <= 1
    /\ \A c \in Callers :
         (cmd[c] # NoCmd \/ conn[c] = "open" \/ wire[c] # <<>>) => mu = c

C1_Witness ==
    \E c, d \in Callers :
        /\ c # d
        /\ pc[c] = "decode" /\ conn[c] = "open" /\ Len(wire[c]) = 3
        /\ pc[d] = "lock"

\* C2: a send that has returned has no open connection, whatever the path
\* it returned by
C2_ConnectionClosedOnReturn ==
    \A c \in Callers : pc[c] = "returned" => conn[c] # "open"

C2_Witness ==
    \E c, d \in Callers :
        /\ pc[c] = "returned" /\ conn[c] = "closed"
        /\ pc[d] = "defer_unlock" /\ conn[d] = "closed"
        /\ ret[d].err.cause = "timeout"

\* the text of the error send builds for a device error e
DeviceRejected(e) ==
    "[" \o Address \o "] command execution error, received &{"
        \o ToString(e.code) \o " " \o e.message \o "}"

\* codes and messages a device error may carry
ErrorCodes == {-5000, -1, 0, 1}
ErrorMessages == {"", "unsupported method", "general error", "1 error"}

\* C3: when the peer's response carries a non-null error object, send
\* returns a nil Response and an error whose text holds the code and the
\* message of that object and of no other, with or without a result array
C3_DeviceErrorSurfaced ==
    \A c \in Callers :
        (Returning(c) /\ inbox[c].kind = "json" /\ ~inbox[c].error.null) =>
            /\ ret[c].resp.nil
            /\ ret[c].err # NoErr
            /\ ret[c].err.text = DeviceRejected(inbox[c].error)
            /\ \A code \in ErrorCodes, message \in ErrorMessages :
                 DeviceError(code, message) # inbox[c].error =>
                     ret[c].err.text # DeviceRejected(DeviceError(code, message))

C3_Witness ==
    \E c \in Callers :
        /\ Returning(c)
        /\ inbox[c].kind = "json" /\ ~inbox[c].error.null
        /\ inbox[c].hasResult /\ Len(inbox[c].result) > 0
        /\ ret[c].resp.nil

\* the JSON value a Go value of a decoded result array stands for
JSONValue(g) ==
    IF g.t = "float64" THEN [t |-> "number", v |-> g.v]
    ELSE [t |-> "string", v |-> g.v]

\* C4: when the peer's response echoes the request id and carries a result
\* array and no error, send returns a Response with that array, value by
\* value and in order, and a nil error
C4_ResultReturned ==
    \A c \in Callers :
        (/\ Returning(c)
         /\ inbox[c].kind = "json"
         /\ inbox[c].id = cmd[c].id
         /\ inbox[c].hasResult
         /\ inbox[c].error.null) =>
            /\ ~ret[c].resp.nil
            /\ ret[c].err = NoErr
            /\ Len(ret[c].resp.Result) = Len(inbox[c].result)
            /\ \A i \in 1..Len(inbox[c].result) :
                 JSONValue(ret[c].resp.Result[i]) = inbox[c].result[i]

C4_Witness ==
    \E c \in Callers :
        /\ Returning(c)
        /\ inbox[c].kind = "json" /\ inbox[c].id = cmd[c].id
        /\ inbox[c].hasResult /\ inbox[c].error.null
        /\ Len(inbox[c].result) = 2
        /\ Len(ret[c].resp.Result) = 2

\* the command of c is written and the peer never answers it
Unanswered(c) == peer[c] = "silent" /\ Len(wire[c]) = 3

\* C5: a send that has written its command to a peer that never answers
\* eventually returns, what it returns is the timeout error and no Response,
\* and when it has returned its connection is closed and the lock released
C5_TimeoutReturns ==
    /\ [](\A c \in Callers :
            (Returning(c) /\ Unanswered(c)) =>
                /\ ret[c].resp.nil
                /\ ret[c].err.cause = "timeout")
    /\ \A c \in Callers :
         (pc[c] = "decode" /\ Unanswered(c)) ~>
             (pc[c] = "returned" /\ conn[c] = "closed" /\ mu # c)

C5_Witness ==
    \E c \in Callers :
        /\ pc[c] = "defer_unlock"
        /\ Unanswered(c)
        /\ ret[c].err.cause = "timeout"
        /\ conn[c] = "closed"

(***************************************************************************)
(* Specifications of the listener                                          *)
(***************************************************************************)
ListenSpec == Init /\ [][ListenNext]_vars

ListenFairSpec ==
    ListenSpec /\ WF_vars(ListenProgress) /\ WF_vars(ConsumerReceive)

(***************************************************************************)
(* Properties of the listener                                              *)
(***************************************************************************)
IsPrefix(a, b) == Len(a) <= Len(b) /\ a = SubSeq(b, 1, Len(a))

\* the goroutine waits for more bytes, and the peer has none under way
ListenerCaughtUp == lpc = "read" /\ stream = <<>> /\ SkipSpace(dbuf) = <<>>

\* C6: with a peer that writes only notification frames and a consumer that
\* keeps receiving, the consumer gets the notifications written, in order,
\* none lost and none twice: what it has received is a prefix of what was
\* written, and all of it once the goroutine has read everything
C6_AllDeliveredInOrder ==
    (njunk = 0 /\ consumer) =>
        /\ IsPrefix(received, sent)
        /\ ListenerCaughtUp => received = sent

\* C7: once ctx is cancelled the goroutine eventually returns, with the
\* connection and the channel closed
C7_CancelStopsListener ==
    cancelled ~> (lpc = "done" /\ lconn = "closed" /\ chClosed)

\* C8: once the peer has closed the connection, and as long as ctx is not
\* cancelled and the consumer receives, the goroutine eventually returns,
\* with the connection and the channel closed
C8_PeerCloseStopsListener ==
    peerClosed ~>
        ((lpc = "done" /\ lconn = "closed" /\ chClosed) \/ cancelled \/ ~consumer)

(***************************************************************************)
(* Discovery                                                               *)
(***************************************************************************)
DiscoverSpec == Init /\ [][DiscoverNext]_vars

\* a reply shaped like an HTTP response: the status line, then header
\* lines, every line ended by CRLF, with or without the closing blank line
RECURSIVE HeaderLinesOnly(_)
HeaderLinesOnly(m) ==
    \/ m = <<>>
    \/ m = <<EOL>>
    \/ /\ Len(m) >= 2
       /\ m[1].kind = "header"
       /\ m[2] = EOL
       /\ HeaderLinesOnly(SubSeq(m, 3, Len(m)))

ResponseShaped(m) ==
    /\ Len(m) >= 2
    /\ m[1] = StatusLine
    /\ m[2] = EOL
    /\ HeaderLinesOnly(SubSeq(m, 3, Len(m)))

\* the positions of the header lines LOCATION: yeelight://<host>:<port>
LocationLines(m) ==
    { i \in 1..Len(m) :
        /\ m[i].kind = "header"
        /\ m[i].key \in {"LOCATION", "Location"}
        /\ Len(m[i].value) = 4
        /\ m[i].value[1] = Scheme
        /\ m[i].value[3] = ":" }

\* <host>:<port> of the first such line
LocatedAt(m) ==
    LET i == CHOOSE j \in LocationLines(m) : \A k \in LocationLines(m) : j <= k
    IN m[i].value[2] \o ":" \o m[i].value[4]

\* C9: when the read deadline passes without a datagram, Discover returns
\* no device and ErrDiscoverNoDeviceFound; it returns a device or a nil
\* error only after it has read a reply
C9_NoReplyNoDevice ==
    /\ [](dret.set /\ (dret.device \/ dret.err = "nil") => buf.read)
    /\ [][(dpc = "read" /\ dgrams = <<>> /\ dpc' # "read") =>
            /\ dret'.set /\ ~dret'.device
            /\ dret'.err = "no device found"]_vars

C9_Witness ==
    /\ dpc = "returned"
    /\ dgrams = <<>>
    /\ ~buf.read
    /\ dret.err = ErrDiscoverNoDeviceFound

\* C10: when the first reply received is shaped like an HTTP response and
\* has a header LOCATION: yeelight://<host>:<port>, Discover returns a device
\* whose address is <host>:<port> of that reply's first such header
C10_LocationBecomesAddress ==
    (/\ dpc = "returned"
     /\ buf.read
     /\ dret.err # "close"
     /\ ResponseShaped(dgrams[1])
     /\ LocationLines(dgrams[1]) # {}) =>
        /\ dret.device
        /\ dret.err = "nil"
        /\ dret.address = LocatedAt(dgrams[1])

C10_Witness ==
    /\ dpc = "returned"
    /\ Len(dgrams) = 2
    /\ ResponseShaped(dgrams[1]) /\ LocationLines(dgrams[1]) # {}
    /\ ResponseShaped(dgrams[2]) /\ LocationLines(dgrams[2]) # {}
    /\ LocatedAt(dgrams[1]) # LocatedAt(dgrams[2])
    /\ dgrams[1][Len(dgrams[1])] = EOL
    /\ dgrams[1][Len(dgrams[1]) - 1].kind = "header"
    /\ dret.address = "192.168.1.50:55443"

\* the return statement Discover left by, as the claim names the exit paths
DiscoverExits == {122, 126, 132, 141}

\* C11: when Discover has returned, by the failure of the search write, by
\* the failure of SetReadDeadline, by the read deadline or with a device,
\* the UDP socket it opened is closed
C11_SocketClosedOnReturn ==
    (dpc = "returned" /\ dret.line \in DiscoverExits) => sock = "closed"

(***************************************************************************)
(* Further properties of send                                              *)
(***************************************************************************)
\* the response c decoded echoes another id than the one of c's command
IdMismatch(c) == inbox[c].kind = "json" /\ inbox[c].id # cmd[c].id

\* C12: a decoded response whose id differs from the id of the command is
\* never returned as a success: send returns no Response and an error
C12_IdMismatchRejected ==
    \A c \in Callers :
        (Returning(c) /\ IdMismatch(c)) =>
            /\ ret[c].resp.nil
            /\ ret[c].err # NoErr

\* A transport in use by callers of send while its listener runs on a
\* connection that the peer closes: the listener's goroutine and the callers
\* share the yeelight struct, the only shared mutable field of which is mu
TransportNext ==
    \/ SendNext
    \/ Listen
    \/ LoopTop
    \/ ReadEOF
    \/ PeerClose

TransportSpec == Init /\ [][TransportNext]_vars

\* the listener's connection is broken and its goroutine still runs
ListenerBroken == peerClosed /\ lpc \in {"top", "read"}

\* C13: the lock is held only by a caller that is executing send, so it is
\* free whenever no send is executing, also while a listener runs on a broken
\* connection; the last step of every send, whatever it returns, leaves the
\* lock free; and a connection is opened only by the holder of the lock, new
\* for this call, with nothing written to it or read from it
C13_LockFreeAfterReturn ==
    /\ [](mu # NoCaller => InSend(mu))
    /\ []((\A c \in Callers : ~InSend(c)) => mu = NoCaller)
    /\ [][\A c \in Callers :
            (pc[c] = "defer_unlock" /\ pc'[c] = "returned") => mu' = NoCaller]_vars
    /\ [][\A c \in Callers :
            (conn[c] # "open" /\ conn'[c] = "open") =>
                /\ mu = c
                /\ conn[c] = "none"
                /\ wire[c] = <<>> /\ inbox[c] = NoFrame]_vars

\* a send that failed to dial has returned, a later one holds the lock on a
\* connection of its own, and the listener runs on a broken connection
C13_Witness ==
    \E c, d \in Callers :
        /\ pc[c] = "returned" /\ conn[c] = "none"
        /\ pc[d] = "decode" /\ conn[d] = "open" /\ mu = d
        /\ ListenerBroken

\* the text of the literal bytes in w
RECURSIVE BytesText(_)
BytesText(w) ==
    IF w = <<>> THEN ""
    ELSE (IF w[1].kind = "bytes" THEN w[1].text ELSE "<json>") \o BytesText(Tail(w))

\* send has written the command and its trailer
CommandWritten(c) == pc[c] \in {"decode", "check"}

\* C14: what send has written when it starts to read is the JSON object of
\* the command, its params in the caller's order, and then CR LF: no byte
\* before the object, none between the object and CR LF, none after
C14_WireIsObjectThenCRLF ==
    \A c \in Callers :
        CommandWritten(c) =>
            /\ wire[c] # <<>>
            /\ wire[c][1] = JSONDoc([id |-> cmd[c].id, method |-> args[c].method,
                                     params |-> args[c].params])
            /\ BytesText(Tail(wire[c])) = crlf

ListenerReads == Len(stream') < Len(stream)

\* the consumer receives the notification being handed over in this step
Handover == received' = Append(received, notif)

\* C16: a decoded notification is held only at the channel send; the loop
\* leaves the channel send only by the consumer receiving that notification,
\* and it reads from the connection only when no decoded notification is
\* waiting: at most one decoded notification is undelivered
C16_UnbufferedHandoff ==
    /\ [](notif # NoNotif <=> lpc = "send")
    /\ [][(lpc = "send" /\ lpc' # "send") => Handover]_vars
    /\ [][ListenerReads => (lpc = "read" /\ notif = NoNotif)]_vars
    /\ [][Len(received') > Len(received) =>
            (lpc = "send" /\ Len(received') = Len(received) + 1)]_vars

\* the loop is stopped at the channel send by a consumer that receives no
\* more, with bytes of the next frame waiting on the connection
C16_Witness ==
    /\ lpc = "send"
    /\ ~consumer
    /\ Len(received) = 1
    /\ notif = Notif(2)
    /\ stream = NotifFrame(3)

\* the consumer has received the k-th notification of the peer
Delivered(k) == \E i \in 1..Len(received) : received[i] = Notif(k)

\* a malformed frame has been written and the k-th notification not yet
WrittenAfterJunk(k) == njunk > 0 /\ nwritten < k

\* C17: a notification frame that the peer writes after a malformed frame
\* is delivered: once the goroutine has read all that was written, with a
\* consumer that receives, the notification is among those received
C17_DeliveredAfterJunk ==
    \A k \in 1..MaxNotifs :
        [](WrittenAfterJunk(k) =>
             []((consumer /\ ListenerCaughtUp /\ nwritten >= k) => Delivered(k)))

\* no LOCATION header can be parsed from the reply: it is not shaped like a
\* response, or it is and has no such header
NoLocation(m) == ~ResponseShaped(m) \/ LocationLines(m) = {}

\* the host:port a reply of the model can announce
AnnouncedAddresses ==
    { Join(SubSeq(h.value, 2, 4)) :
        h \in {l \in HeaderLines : Canonical(l.key) = "Location"} }

\* C18: when no LOCATION header can be parsed from the reply that was read,
\* Discover returns a nil error and a device whose address is empty or the
\* default port without a host, never a host:port that a reply announces
C18_MalformedReplyNoHost ==
    (/\ dpc = "returned"
     /\ buf.read
     /\ dret.err # "close"
     /\ NoLocation(dgrams[1])) =>
        /\ dret.device
        /\ dret.err = "nil"
        /\ dret.address \in {"", ":" \o ToString(DefaultPort)}
        /\ dret.address \notin AnnouncedAddresses

\* the reply read names a device in a LOCATION line but is no response (its
\* first line is not a status line); a second, well-formed reply is ignored
C18_Witness ==
    /\ dpc = "returned"
    /\ buf.read
    /\ Len(dgrams) = 2
    /\ dgrams[1] # <<>>
    /\ dgrams[1][1] = Noise
    /\ \E i \in 1..Len(dgrams[1]) :
         dgrams[1][i].kind = "header" /\ dgrams[1][i].key = "LOCATION"
    /\ ResponseShaped(dgrams[2]) /\ LocationLines(dgrams[2]) # {}
    /\ dret.device
    /\ dret.address = ":55443"

\* the goroutine has left the loop
LoopLeft == lpc \in {"defer_close", "defer_chan", "done"}

\* C19: from the moment ctx is cancelled the consumer receives at most one
\* more notification; a loop that finds ctx cancelled at the top of an
\* iteration leaves, and from then on reads nothing and emits nothing; the
\* channel is closed once, as the last step, and nothing is emitted after
C19_CancelEndsEmission ==
    /\ \A n \in 0..MaxNotifs :
         []((cancelled /\ Len(received) = n) => [](Len(received) <= n + 1))
    /\ [][(cancelled /\ lpc = "top" /\ lpc' # "top") => lpc' = "defer_close"]_vars
    /\ [][LoopLeft => (LoopLeft' /\ ~ListenerReads /\ received' = received)]_vars
    /\ [][(~chClosed /\ chClosed') => (lpc = "defer_chan" /\ lpc' = "done")]_vars
    /\ [][chClosed => (chClosed' /\ lpc' = "done" /\ received' = received)]_vars

\* ctx was cancelled during the handoff of the second notification: that one
\* was received, the third, already written, was never read, and the
\* goroutine has closed the channel
C19_Witness ==
    /\ cancelled
    /\ lpc = "done"
    /\ chClosed
    /\ received = <<Notif(1), Notif(2)>>
    /\ stream = NotifFrame(3)

(***************************************************************************)
(* yeelight.IsPowerOn (src/yeelight.go:282-289)                            *)
(***************************************************************************)
\* the arguments IsPowerOn passes to send
PowerQuery == [method |-> GetProp, params |-> <<"power">>]

\* what IsPowerOn does with the pair r that send returned: it passes the
\* error on, or it compares resp.Result[0] with "on"; indexing an empty
\* slice is a run-time panic (index out of range)
IsPowerOn(r) ==
    IF r.err # NoErr THEN [kind |-> "error", value |-> FALSE]
    ELSE IF Len(r.resp.Result) = 0 THEN [kind |-> "panic", value |-> FALSE]
    ELSE [kind |-> "value",
          value |-> r.resp.Result[1] = [t |-> "string", v |-> "on"]]

\* C20: whatever send returns to IsPowerOn, IsPowerOn returns a boolean or
\* an error and does not fail at run time, and it returns true exactly when
\* the first value of the result array is the string "on"
C20_IsPowerOnTotal ==
    \A c \in Callers :
        (Returning(c) /\ args[c] = PowerQuery) =>
            LET o == IsPowerOn(ret[c]) IN
            /\ o.kind \in {"value", "error"}
            /\ (o.kind = "value" /\ o.value) <=>
                   /\ ret[c].err = NoErr
                   /\ inbox[c].hasResult
                   /\ inbox[c].result # <<>>
                   /\ inbox[c].result[1] = JStr("on")

====
